---------------------------- MODULE Spec2Model ----------------------------
(***************************************************************************)
(* A model of the contact scraper: the field normalizers, the pattern      *)
(* matchers, the structured and text-heuristic extractors, the two-stage   *)
(* dedup and the per-source loop of main.                                  *)
(*                                                                         *)
(* A Python str is a sequence of one-character strings.  A Python dict     *)
(* with the optional keys name/email/phone/source_url is a record holding  *)
(* the set of keys present ("keys") and one value per key; the value of an *)
(* absent key is kept at the empty string so that equal dicts are equal    *)
(* records.                                                                *)
(***************************************************************************)
EXTENDS Integers, Sequences, FiniteSets, TLC

VARIABLES
    pc,              \* position of the run under study
    input_exists,    \* main: whether the file named by --input exists
    sources,         \* main: the non-blank lines of the input file, resolved to what fetching them gives
    idx,             \* main: number of sources whose loop body has run
    all_records,     \* main: the accumulated, normalized records
    unique_records,  \* main: the result of dedupe_records
    written,         \* main: the list handed to write_excel, one entry per call
    exit_code,       \* main: -1 while running; sys.exit's argument, or 0 on return
    log,             \* main: the per-source outcome reported by the logger
    arg,             \* function under study: its input
    ret,             \* function under study: its result
    ret2             \* function under study: its result applied to ret (where studied)

vars == <<pc, input_exists, sources, idx, all_records, unique_records, written, exit_code,
          log, arg, ret, ret2>>

mainVars == <<input_exists, sources, idx, all_records, unique_records, written, exit_code, log>>

(***************************************************************************)
(* Characters and strings                                                  *)
(***************************************************************************)
UpperSeq == <<"A","B","C","D","E","F","G","H","I","J","K","L","M",
              "N","O","P","Q","R","S","T","U","V","W","X","Y","Z">>
LowerSeq == <<"a","b","c","d","e","f","g","h","i","j","k","l","m",
              "n","o","p","q","r","s","t","u","v","w","x","y","z">>

Range(f) == {f[i] : i \in DOMAIN f}

UpperChars == Range(UpperSeq)
LowerChars == Range(LowerSeq)
DigitChars == {"0","1","2","3","4","5","6","7","8","9"}
SpaceChars == {" ", "\t", "\n", "\r"}

IsUpper(c) == c \in UpperChars
IsLower(c) == c \in LowerChars
IsAlpha(c) == IsUpper(c) \/ IsLower(c)
IsDigit(c) == c \in DigitChars
IsSpace(c) == c \in SpaceChars

LowerChar(c) ==
    IF IsUpper(c) THEN LowerSeq[CHOOSE i \in 1..26 : UpperSeq[i] = c] ELSE c
UpperChar(c) ==
    IF IsLower(c) THEN UpperSeq[CHOOSE i \in 1..26 : LowerSeq[i] = c] ELSE c

\* str.lower()
lower(s) == [i \in 1..Len(s) |-> LowerChar(s[i])]

\* s[i:j] with 1-based inclusive bounds; empty when i > j
Slice(s, i, j) == IF i > j THEN <<>> ELSE SubSeq(s, i, j)

\* str.strip(): leading and trailing whitespace removed
strip(s) ==
    LET nonsp == {i \in 1..Len(s) : ~IsSpace(s[i])}
    IN  IF nonsp = {} THEN <<>>
        ELSE LET a == CHOOSE i \in nonsp : \A j \in nonsp : i <= j
                 b == CHOOSE i \in nonsp : \A j \in nonsp : j <= i
             IN  SubSeq(s, a, b)

\* ''.join(c for c in s if keep(c))
RECURSIVE FilterDigits(_)
FilterDigits(s) ==
    IF s = <<>> THEN <<>>
    ELSE IF IsDigit(Head(s)) THEN <<Head(s)>> \o FilterDigits(Tail(s))
    ELSE FilterDigits(Tail(s))

\* str.startswith
startswith(s, p) == Len(s) >= Len(p) /\ SubSeq(s, 1, Len(p)) = p

\* all strings over alphabet A of length at most n
StringsUpTo(A, n) == UNION {[1..k -> A] : k \in 0..n}

(***************************************************************************)
(* Python's re, for the three patterns of parser.py.  A pattern is a       *)
(* sequence of items matched left to right by backtracking in Python's     *)
(* priority order (greedy repetition first, an optional group entered      *)
(* before it is skipped), so the match found is the one re finds.          *)
(*   class : min..max characters of `set`, greedy                          *)
(*   lits  : the first of the literal strings `opts` (an alternation),     *)
(*           compared ignoring case                                        *)
(*   opt   : an optional group; `jump` is the item after the group         *)
(*   loop  : the end of a one-or-more group starting at item `jump`        *)
(*   wordb : \b                                                            *)
(*   cap   : the start of capturing group 1                                *)
(*   eos   : the end of the string (fullmatch)                             *)
(* Positions are 1-based; a result's `end` is the position after the last  *)
(* matched character, 0 when there is no match.                            *)
(***************************************************************************)
Inf == 1000000

Item(kind, set, min, max, jump, opts) ==
    [kind |-> kind, set |-> set, min |-> min, max |-> max, jump |-> jump, opts |-> opts]
Class(set, min, max) == Item("class", set, min, max, 0, <<>>)
Lits(opts) == Item("lits", {}, 0, 0, 0, opts)
Opt(jump) == Item("opt", {}, 0, 0, jump, <<>>)
Loop(jump) == Item("loop", {}, 0, 0, jump, <<>>)
WordB == Item("wordb", {}, 0, 0, 0, <<>>)
Cap == Item("cap", {}, 0, 0, 0, <<>>)
Eos == Item("eos", {}, 0, 0, 0, <<>>)

NoMatch == [end |-> 0, cap |-> 0]

AlnumChars == UpperChars \cup LowerChars \cup DigitChars
WordChars == AlnumChars \cup {"_"}

IsWordAt(s, i) == i >= 1 /\ i <= Len(s) /\ s[i] \in WordChars

\* the length of the longest run of characters of `set` starting at s[i], at most max
RECURSIVE RunLen(_, _, _, _)
RunLen(s, i, set, max) ==
    IF max = 0 \/ i > Len(s) \/ s[i] \notin set THEN 0
    ELSE 1 + RunLen(s, i + 1, set, max - 1)

RECURSIVE M(_, _, _, _), TryCount(_, _, _, _, _), TryLits(_, _, _, _, _)
M(re, s, k, i) ==
    IF k > Len(re) THEN [end |-> i, cap |-> 0]
    ELSE LET it == re[k] IN
      CASE it.kind = "class" ->
             LET n == RunLen(s, i, it.set, it.max)
             IN  TryCount(re, s, k, i, n)
        [] it.kind = "lits" -> TryLits(re, s, k, i, 1)
        [] it.kind = "opt" ->
             LET r == M(re, s, k + 1, i)
             IN  IF r.end # 0 THEN r ELSE M(re, s, it.jump, i)
        [] it.kind = "loop" ->
             LET r == M(re, s, it.jump, i)
             IN  IF r.end # 0 THEN r ELSE M(re, s, k + 1, i)
        [] it.kind = "wordb" ->
             IF IsWordAt(s, i - 1) # IsWordAt(s, i) THEN M(re, s, k + 1, i) ELSE NoMatch
        [] it.kind = "cap" ->
             LET r == M(re, s, k + 1, i)
             IN  IF r.end # 0 THEN [r EXCEPT !.cap = i] ELSE NoMatch
        [] it.kind = "eos" ->
             IF i = Len(s) + 1 THEN M(re, s, k + 1, i) ELSE NoMatch

\* item k is a class: take n characters, then fewer, down to the item's minimum
TryCount(re, s, k, i, n) ==
    IF n < re[k].min THEN NoMatch
    ELSE LET r == M(re, s, k + 1, i + n)
         IN  IF r.end # 0 THEN r ELSE TryCount(re, s, k, i, n - 1)

\* item k is an alternation of literals: the options in order
TryLits(re, s, k, i, o) ==
    IF o > Len(re[k].opts) THEN NoMatch
    ELSE LET lit == re[k].opts[o]
             here == i + Len(lit) - 1 <= Len(s) /\ lower(SubSeq(s, i, i + Len(lit) - 1)) = lit
             r == IF here THEN M(re, s, k + 1, i + Len(lit)) ELSE NoMatch
         IN  IF r.end # 0 THEN r ELSE TryLits(re, s, k, i, o + 1)

\* pattern.match(s): a match starting at the first character
re_match(re, s) == M(re, s, 1, 1)

\* pattern.fullmatch(s): a match of the whole string
re_fullmatch(re, s) == M(re \o <<Eos>>, s, 1, 1)

\* pattern.search(s): the leftmost match; `start` is where it begins
RECURSIVE SearchFrom(_, _, _)
SearchFrom(re, s, i) ==
    IF i > Len(s) + 1 THEN [start |-> 0, end |-> 0, cap |-> 0]
    ELSE LET r == M(re, s, 1, i)
         IN  IF r.end # 0 THEN [start |-> i, end |-> r.end, cap |-> r.cap]
             ELSE SearchFrom(re, s, i + 1)
re_search(re, s) == SearchFrom(re, s, 1)

\* match.group(0)
group0(s, m) == Slice(s, m.start, m.end - 1)
\* match.group(1)
group1(s, m) == Slice(s, m.cap, m.end - 1)

EmailLocalChars == AlnumChars \cup {".", "_", "%", "+", "-"}
EmailDomainChars == AlnumChars \cup {".", "-"}
EmailTldChars == UpperChars \cup LowerChars \cup {"|"}
PhoneSepChars == SpaceChars \cup {".", "-"}
NameSepChars == SpaceChars \cup {":", "=", "-"}
LetterChars == UpperChars \cup LowerChars

\* \b[A-Za-z0-9._%+-]+@[A-Za-z0-9.-]+\.[A-Z|a-z]{2,}\b  (IGNORECASE)
EMAIL_RE ==
    << WordB,
       Class(EmailLocalChars, 1, Inf),
       Class({"@"}, 1, 1),
       Class(EmailDomainChars, 1, Inf),
       Class({"."}, 1, 1),
       Class(EmailTldChars, 2, Inf),
       WordB >>

\* (?:\+?\d{1,3}[\s.-]?)?(?:\(?\d{2,4}\)?[\s.-]?)?\d{3,4}[\s.-]?\d{3,4}(?:[\s.-]?\d{1,4})?
PHONE_RE ==
    << Opt(5),
       Class({"+"}, 0, 1),
       Class(DigitChars, 1, 3),
       Class(PhoneSepChars, 0, 1),
       Opt(10),
       Class({"("}, 0, 1),
       Class(DigitChars, 2, 4),
       Class({")"}, 0, 1),
       Class(PhoneSepChars, 0, 1),
       Class(DigitChars, 3, 4),
       Class(PhoneSepChars, 0, 1),
       Class(DigitChars, 3, 4),
       Opt(16),
       Class(PhoneSepChars, 0, 1),
       Class(DigitChars, 1, 4) >>

\* (?:name|contact|person)[\s:=-]+([A-Z][a-z]+(?:\s+[A-Z][a-z]+)+)  (IGNORECASE:
\* [A-Z] and [a-z] each match a letter of either case)
NAME_PATTERN ==
    << Lits(<< <<"n","a","m","e">>,
               <<"c","o","n","t","a","c","t">>,
               <<"p","e","r","s","o","n">> >>),
       Class(NameSepChars, 1, Inf),
       Cap,
       Class(LetterChars, 1, 1),
       Class(LetterChars, 1, Inf),
       Class(SpaceChars, 1, Inf),
       Class(LetterChars, 1, 1),
       Class(LetterChars, 1, Inf),
       Loop(6) >>

(***************************************************************************)
(* utils.canonical_phone                                                   *)
(***************************************************************************)
\* mutant: the leading '+' is looked for before the string is trimmed
canonical_phone_unstripped(phone) ==
    IF phone = <<>> THEN <<>>
    ELSE LET has_plus == startswith(phone, <<"+">>)
             digits == FilterDigits(strip(phone))
         IN  IF has_plus /\ digits # <<>> THEN <<"+">> \o digits ELSE digits

canonical_phone(phone) ==
    IF phone = <<>> THEN <<>>
    ELSE LET p == strip(phone)
             has_plus == startswith(p, <<"+">>)
             digits == FilterDigits(p)
         IN  IF has_plus /\ digits # <<>> THEN <<"+">> \o digits ELSE digits

(***************************************************************************)
(* Contact records (Python dicts)                                          *)
(***************************************************************************)
ContentFields == {"name", "email", "phone"}

EmptyDict ==
    [keys |-> {}, name |-> <<>>, email |-> <<>>, phone |-> <<>>, source_url |-> <<>>]

\* d[k] = v
Put(d, k, v) == [d EXCEPT ![k] = v, !.keys = @ \cup {k}]

\* bool(d.get(k)): the key is present with a non-empty value
Truthy(d, k) == d[k] # <<>>

\* s contains sub  (Python's `sub in s`)
Contains(s, sub) ==
    \E i \in 1..(Len(s) - Len(sub) + 1) : SubSeq(s, i, i + Len(sub) - 1) = sub

(***************************************************************************)
(* normalizer.py                                                           *)
(***************************************************************************)
\* str.split(): the maximal runs of non-whitespace characters
RECURSIVE split_ws(_)
split_ws(s) ==
    LET t == strip(s)
    IN  IF t = <<>> THEN <<>>
        ELSE LET n == RunLen(t, 1, {t[i] : i \in 1..Len(t)} \ SpaceChars, Len(t))
             IN  <<SubSeq(t, 1, n)>> \o split_ws(Slice(t, n + 1, Len(t)))

\* ' '.join(words)
RECURSIVE join_space(_)
join_space(words) ==
    IF words = <<>> THEN <<>>
    ELSE IF Len(words) = 1 THEN words[1]
    ELSE words[1] \o <<" ">> \o join_space(Tail(words))

\* str.title(): a letter is uppercased when the character before it is not a
\* letter, and lowercased when it is
title(s) ==
    [i \in 1..Len(s) |->
        IF ~IsAlpha(s[i]) THEN s[i]
        ELSE IF i > 1 /\ IsAlpha(s[i - 1]) THEN LowerChar(s[i])
        ELSE UpperChar(s[i])]

\* str.capitalize() of one word: its first character uppercased, the rest lowercased
capitalize(w) == [i \in 1..Len(w) |-> IF i = 1 THEN UpperChar(w[i]) ELSE LowerChar(w[i])]

\* mutant: each word is capitalized instead of the string being title-cased
normalize_name_capitalize(name) ==
    LET words == split_ws(name)
    IN  join_space([k \in 1..Len(words) |-> capitalize(words[k])])

normalize_name(name) == title(join_space(split_ws(name)))

normalize_email(email) == lower(strip(email))

normalize_phone(phone) == canonical_phone(phone)

normalize_record(r) ==
    LET n1 == IF "name" \in r.keys THEN Put(EmptyDict, "name", normalize_name(r.name))
              ELSE EmptyDict
        n2 == IF "email" \in r.keys THEN Put(n1, "email", normalize_email(r.email)) ELSE n1
        n3 == IF "phone" \in r.keys THEN Put(n2, "phone", normalize_phone(r.phone)) ELSE n2
    IN  IF "source_url" \in r.keys THEN Put(n3, "source_url", strip(r.source_url)) ELSE n3

(***************************************************************************)
(* utils.dedupe_records (Stage 2)                                          *)
(***************************************************************************)
\* mutant: the name is part of the key
dedupe_key_with_name(record) ==
    <<lower(record.email), canonical_phone(record.phone), lower(record.name)>>

\* the key of a record: (email.lower(), canonical_phone(phone))
dedupe_key(record) == <<lower(record.email), canonical_phone(record.phone)>>

RECURSIVE dedupe_loop(_, _, _)
dedupe_loop(records, seen, unique) ==
    IF records = <<>> THEN unique
    ELSE LET record == Head(records)
             key == dedupe_key(record)
         IN  IF key \notin seen
             THEN dedupe_loop(Tail(records), seen \cup {key}, Append(unique, record))
             ELSE dedupe_loop(Tail(records), seen, unique)

\* mutant: of the records sharing a key, the last one is kept
RECURSIVE dedupe_keep_last(_)
dedupe_keep_last(records) ==
    IF records = <<>> THEN <<>>
    ELSE LET record == Head(records)
             later == \E j \in 2..Len(records) : dedupe_key(records[j]) = dedupe_key(record)
         IN  IF later THEN dedupe_keep_last(Tail(records))
             ELSE <<record>> \o dedupe_keep_last(Tail(records))

\* mutant: the loop starts at the second record
dedupe_skip_first(records) ==
    IF records = <<>> THEN <<>> ELSE dedupe_loop(Tail(records), {}, <<>>)

dedupe_records(records) == dedupe_loop(records, {}, <<>>)

(***************************************************************************)
(* parser.py: documents                                                    *)
(*                                                                         *)
(* A parsed document is what the extractors read of it: its tables (each a *)
(* sequence of rows, a row the texts of its cells), its anchors (href and  *)
(* text), its elements carrying a class or an id (the attribute value and  *)
(* the text), and its further paragraphs.  The markup puts each of these   *)
(* on a line of its own, as the fixture of tests/test_parser.py does, so   *)
(* get_text() is these texts, one per line, in document order.             *)
(***************************************************************************)
\* Tag.get_text(strip=True) of an element holding one text node
get_text_strip(text) == strip(text)

None == -1

\* the column mapping of a header row: the loop over enumerate(headers)
RECURSIVE map_columns(_, _, _)
map_columns(headers, i, acc) ==
    IF i > Len(headers) THEN acc
    ELSE LET header == headers[i]
             col == i - 1
         IN  IF Contains(header, <<"n","a","m","e">>) \/ Contains(header, <<"c","o","n","t","a","c","t">>)
                  \/ Contains(header, <<"p","e","r","s","o","n">>)
             THEN map_columns(headers, i + 1, [acc EXCEPT !.name_idx = col])
             ELSE IF Contains(header, <<"e","m","a","i","l">>) \/ Contains(header, <<"m","a","i","l">>)
             THEN map_columns(headers, i + 1, [acc EXCEPT !.email_idx = col])
             ELSE IF Contains(header, <<"p","h","o","n","e">>) \/ Contains(header, <<"t","e","l">>)
                      \/ Contains(header, <<"m","o","b","i","l","e">>)
             THEN map_columns(headers, i + 1, [acc EXCEPT !.phone_idx = col])
             ELSE map_columns(headers, i + 1, acc)

\* any([name_idx, email_idx, phone_idx]): None and 0 are both falsy
any_idx(m) ==
    \E v \in {m.name_idx, m.email_idx, m.phone_idx} : v # None /\ v # 0

\* the fallback loop over the cells of a row
RECURSIVE fallback_cells(_, _)
fallback_cells(cells, contact) ==
    IF cells = <<>> THEN contact
    ELSE LET text == get_text_strip(Head(cells))
             em == re_search(EMAIL_RE, text)
             c1 == IF ~Truthy(contact, "email") /\ em.end # 0
                   THEN Put(contact, "email", group0(text, em)) ELSE contact
             pm == re_search(PHONE_RE, text)
             c2 == IF ~Truthy(c1, "phone") /\ pm.end # 0
                   THEN Put(c1, "phone", group0(text, pm)) ELSE c1
         IN  fallback_cells(Tail(cells), c2)

\* one data row: the mapped columns, then the fallback
row_contact(cells, m) ==
    LET c1 == IF m.name_idx # None /\ m.name_idx < Len(cells)
              THEN Put(EmptyDict, "name", get_text_strip(cells[m.name_idx + 1]))
              ELSE EmptyDict
        c2 == IF m.email_idx # None /\ m.email_idx < Len(cells)
              THEN Put(c1, "email", get_text_strip(cells[m.email_idx + 1])) ELSE c1
        c3 == IF m.phone_idx # None /\ m.phone_idx < Len(cells)
              THEN Put(c2, "phone", get_text_strip(cells[m.phone_idx + 1])) ELSE c2
    IN  fallback_cells(cells, c3)

\* for row in rows[start_idx:]
RECURSIVE data_rows(_, _)
data_rows(rows, m) ==
    IF rows = <<>> THEN <<>>
    ELSE LET cells == Head(rows)
             contact == row_contact(cells, m)
         IN  IF cells = <<>> THEN data_rows(Tail(rows), m)
             ELSE IF contact.keys # {} THEN <<contact>> \o data_rows(Tail(rows), m)
             ELSE data_rows(Tail(rows), m)

\* the column mapping read off the first row of a table
header_map(rows) ==
    map_columns([i \in 1..Len(rows[1]) |-> lower(get_text_strip(rows[1][i]))], 1,
                [name_idx |-> None, email_idx |-> None, phone_idx |-> None])

\* the candidates of one table
table_contacts(rows) ==
    IF rows = <<>> THEN <<>>
    ELSE LET m == header_map(rows)
             start_idx == IF any_idx(m) THEN 1 ELSE 0
         IN  data_rows(Slice(rows, start_idx + 1, Len(rows)), m)

RECURSIVE extract_from_tables(_)
extract_from_tables(tables) ==
    IF tables = <<>> THEN <<>>
    ELSE table_contacts(Head(tables)) \o extract_from_tables(Tail(tables))

\* str.replace(old, ''): every occurrence of old removed, left to right
RECURSIVE remove_all(_, _)
remove_all(s, old) ==
    IF s = <<>> THEN <<>>
    ELSE IF startswith(s, old) THEN remove_all(Slice(s, Len(old) + 1, Len(s)), old)
    ELSE <<Head(s)>> \o remove_all(Tail(s), old)

\* s.split('?')[0]
before_query(s) ==
    LET q == {i \in 1..Len(s) : s[i] = "?"}
    IN  IF q = {} THEN s
        ELSE Slice(s, 1, (CHOOSE i \in q : \A j \in q : i <= j) - 1)

\* find_all('a', href=re.compile(r'^mailto:', re.IGNORECASE))
is_mailto(href) == startswith(lower(href), <<"m","a","i","l","t","o",":">>)

\* the candidates of one anchor
mailto_contact(link) ==
    IF ~is_mailto(link.href) THEN <<>>
    ELSE LET email == strip(before_query(remove_all(link.href, <<"m","a","i","l","t","o",":">>)))
             name == get_text_strip(link.text)
         IN  IF re_match(EMAIL_RE, email).end # 0
             THEN LET contact == Put(EmptyDict, "email", email)
                  IN  IF name # <<>> /\ name # email
                      THEN <<Put(contact, "name", name)>> ELSE <<contact>>
             ELSE <<>>

RECURSIVE extract_mailto_links(_)
extract_mailto_links(anchors) ==
    IF anchors = <<>> THEN <<>>
    ELSE mailto_contact(Head(anchors)) \o extract_mailto_links(Tail(anchors))

semantic_patterns ==
    << <<"n","a","m","e">>, <<"f","u","l","l","n","a","m","e">>, <<"c","o","n","t","a","c","t">>, <<"e","m","a","i","l">>, <<"p","h","o","n","e">>, <<"t","e","l">>, <<"m","o","b","i","l","e">> >>

\* the candidate of one matched element under one pattern
semantic_contact(pattern, elem) ==
    LET text == get_text_strip(elem.text)
    IN  IF Contains(pattern, <<"e","m","a","i","l">>) \/ Contains(pattern, <<"m","a","i","l">>)
        THEN LET em == re_search(EMAIL_RE, text)
             IN  IF em.end # 0 THEN <<Put(EmptyDict, "email", group0(text, em))>> ELSE <<>>
        ELSE IF Contains(pattern, <<"p","h","o","n","e">>) \/ Contains(pattern, <<"t","e","l">>)
                 \/ Contains(pattern, <<"m","o","b","i","l","e">>)
        THEN LET pm == re_search(PHONE_RE, text)
             IN  IF pm.end # 0 THEN <<Put(EmptyDict, "phone", group0(text, pm))>> ELSE <<>>
        ELSE IF Contains(pattern, <<"n","a","m","e">>) \/ Contains(pattern, <<"c","o","n","t","a","c","t">>)
        THEN IF text # <<>> /\ Len(text) > 2 THEN <<Put(EmptyDict, "name", text)>> ELSE <<>>
        ELSE <<>>

\* the elements whose attribute `attr` matches the pattern, in document order
RECURSIVE find_all_attr(_, _, _)
find_all_attr(elems, attr, pattern) ==
    IF elems = <<>> THEN <<>>
    ELSE LET e == Head(elems)
             rest == find_all_attr(Tail(elems), attr, pattern)
         IN  IF e.attr = attr /\ Contains(lower(e.value), pattern) THEN <<e>> \o rest
             ELSE rest

RECURSIVE semantic_each(_, _)
semantic_each(pattern, elements) ==
    IF elements = <<>> THEN <<>>
    ELSE semantic_contact(pattern, Head(elements)) \o semantic_each(pattern, Tail(elements))

RECURSIVE semantic_loop(_, _)
semantic_loop(patterns, elems) ==
    IF patterns = <<>> THEN <<>>
    ELSE LET pattern == Head(patterns)
             elements == find_all_attr(elems, "class", pattern)
                            \o find_all_attr(elems, "id", pattern)
         IN  semantic_each(pattern, elements) \o semantic_loop(Tail(patterns), elems)

extract_semantic_elements(elems) == semantic_loop(semantic_patterns, elems)

extract_structured(soup) ==
    extract_from_tables(soup.tables)
        \o extract_mailto_links(soup.anchors)
        \o extract_semantic_elements(soup.elems)

\* concatenation of a sequence of sequences
RECURSIVE Flatten(_)
Flatten(ss) == IF ss = <<>> THEN <<>> ELSE Head(ss) \o Flatten(Tail(ss))

\* soup.get_text().split('\n')
get_text_lines(soup) ==
    Flatten([t \in 1..Len(soup.tables) |-> Flatten(soup.tables[t])])
        \o [i \in 1..Len(soup.anchors) |-> soup.anchors[i].text]
        \o [i \in 1..Len(soup.elems) |-> soup.elems[i].text]
        \o soup.paras

\* the candidate of one line of text
line_contact(raw) ==
    LET line == strip(raw)
        em == re_search(EMAIL_RE, line)
        c1 == IF em.end # 0 THEN Put(EmptyDict, "email", group0(line, em)) ELSE EmptyDict
        pm == re_search(PHONE_RE, line)
        c2 == IF pm.end # 0 THEN Put(c1, "phone", group0(line, pm)) ELSE c1
        nm == re_search(NAME_PATTERN, line)
        c3 == IF nm.end # 0 THEN Put(c2, "name", strip(group1(line, nm))) ELSE c2
    IN  IF line = <<>> THEN <<>>
        ELSE IF c3.keys # {} THEN <<c3>> ELSE <<>>

RECURSIVE text_lines(_)
text_lines(lines) ==
    IF lines = <<>> THEN <<>>
    ELSE line_contact(Head(lines)) \o text_lines(Tail(lines))

extract_candidates_via_text(soup) == text_lines(get_text_lines(soup))

(***************************************************************************)
(* parser.extract_contacts: Stage-1 dedup                                  *)
(***************************************************************************)
\* a key component that is None
NoneKey == <<"None">>

\* mutant: the email is left out of the key
stage1_key_no_email(contact) ==
    << IF Truthy(contact, "name") THEN lower(strip(contact.name)) ELSE NoneKey,
       NoneKey,
       IF Truthy(contact, "phone") THEN strip(contact.phone) ELSE NoneKey >>

\* (name.strip().lower() or None, email.strip().lower() or None, phone.strip() or None),
\* each component None when the field is absent or empty
stage1_key(contact) ==
    << IF Truthy(contact, "name") THEN lower(strip(contact.name)) ELSE NoneKey,
       IF Truthy(contact, "email") THEN lower(strip(contact.email)) ELSE NoneKey,
       IF Truthy(contact, "phone") THEN strip(contact.phone) ELSE NoneKey >>

\* mutant: the all-empty check is dropped
any_key_accepts_all(key) == TRUE

\* any(key): some component is neither None nor the empty string
any_key(key) == \E i \in 1..3 : key[i] # NoneKey /\ key[i] # <<>>

RECURSIVE stage1_loop(_, _, _, _)
stage1_loop(all_contacts, source_url, seen, unique_contacts) ==
    IF all_contacts = <<>> THEN unique_contacts
    ELSE LET contact == Head(all_contacts)
             key == stage1_key(contact)
         IN  IF ~any_key(key) \/ key \in seen
             THEN stage1_loop(Tail(all_contacts), source_url, seen, unique_contacts)
             ELSE stage1_loop(Tail(all_contacts), source_url, seen \cup {key},
                              Append(unique_contacts, Put(contact, "source_url", source_url)))

\* structured + text_based
all_contacts_of(soup) == extract_structured(soup) \o extract_candidates_via_text(soup)

extract_contacts(soup, source_url) ==
    stage1_loop(all_contacts_of(soup), source_url, {}, <<>>)

(***************************************************************************)
(* Specification of canonical_phone applied once and then to its result    *)
(***************************************************************************)
MaxPhoneLen == 4
PhoneAlphabet == {"+", "1", "2", " ", "-"}

mainIdle ==
    /\ input_exists = TRUE /\ sources = <<>> /\ idx = 0 /\ all_records = <<>> /\ unique_records = <<>>
    /\ written = <<>> /\ exit_code = -1 /\ log = <<>>

InitPhone ==
    /\ pc = "phone_start"
    /\ arg \in StringsUpTo(PhoneAlphabet, MaxPhoneLen)
    /\ ret = <<>> /\ ret2 = <<>>
    /\ mainIdle

PhoneOnce ==
    /\ pc = "phone_start"
    /\ ret' = canonical_phone(arg)
    /\ pc' = "phone_once"
    /\ UNCHANGED <<arg, ret2, mainVars>>

PhoneTwice ==
    /\ pc = "phone_once"
    /\ ret2' = canonical_phone(ret)
    /\ pc' = "phone_twice"
    /\ UNCHANGED <<arg, ret, mainVars>>

NextPhone == PhoneOnce \/ PhoneTwice

SpecPhone == InitPhone /\ [][NextPhone]_vars

(***************************************************************************)
(* Documents the specifications draw from                                  *)
(***************************************************************************)
Soup(tables, anchors, elems, paras) ==
    [tables |-> tables, anchors |-> anchors, elems |-> elems, paras |-> paras]
Anchor(href, text) == [href |-> href, text |-> text]
Elem(attr, value, text) == [attr |-> attr, value |-> value, text |-> text]

HeaderNEP == << <<"N","a","m","e">>, <<"E","m","a","i","l">>, <<"P","h","o","n","e">> >>

\* header Name/Email/Phone and one full data row
TabFull == << HeaderNEP, << <<"A","l"," ","B","o">>, <<"a","@","b",".","c","o">>, <<"5","5","5","-","1","2","3","4">> >> >>
\* the same contact under another name, its email in another letter case
TabFullOther == << HeaderNEP, << <<"C","y"," ","D","i">>, <<"A","@","b",".","c","o">>, <<"5","5","5","-","1","2","3","4">> >> >>
\* a single Name column
TabNameOnly == << << <<"N","a","m","e">> >>, << <<"A","l"," ","B","o">> >> >>
\* a data row whose cells are all empty
TabEmptyRow == << HeaderNEP, << <<>>, <<>>, <<>> >> >>
\* a phone cell that holds no digit
TabNoDigits == << << <<"N","a","m","e">>, <<"P","h","o","n","e">> >>, << <<>>, <<"N","/","A">> >> >>
\* the keyword columns in another order
TabEmailFirst == << << <<"E","m","a","i","l">>, <<"N","a","m","e">> >>, << <<"A","@","b",".","c","o">>, <<"C","y"," ","D","i">> >> >>

TablePool == {TabFull, TabFullOther, TabNameOnly, TabEmptyRow, TabNoDigits, TabEmailFirst}

AnchorPool ==
    { Anchor(<<"m","a","i","l","t","o",":","a","@","b",".","c","o">>, <<"C","y"," ","D","i">>),
      Anchor(<<"m","a","i","l","t","o",":","A","@","b",".","c","o">>, <<"A","@","b",".","c","o">>),
      Anchor(<<"M","A","I","L","T","O",":","a","@","b",".","c","o">>, <<"A","l"," ","B","o">>) }

ElemPool ==
    { Elem("class", <<"e","m","a","i","l">>, <<"a","@","b",".","c","o">>),
      Elem("id", <<"n","a","m","e">>, <<"A","l"," ","B","o">>),
      Elem("class", <<"p","h","o","n","e">>, <<"5","5","5","-","1","2","3","4">>) }

ParaPool == { <<"C","o","n","t","a","c","t",":"," ","A","l"," ","B","o">>, <<"a","@","b",".","c","o"," ","5","5","5","-","1","2","3","4">>, <<" "," ">> }

\* at most one element of the pool, as a sequence
AtMostOne(pool) == {<<>>} \cup {<<x>> : x \in pool}

\* the sequences over `pool` of length at most n
SeqsUpTo(pool, n) == UNION {[1..k -> pool] : k \in 0..n}

MaxParas == 1

SoupPool ==
    { Soup(t, a, e, p) : t \in AtMostOne(TablePool), a \in AtMostOne(AnchorPool),
                         e \in AtMostOne(ElemPool), p \in SeqsUpTo(ParaPool, MaxParas) }

(***************************************************************************)
(* Specification of extract_contacts on one document                       *)
(***************************************************************************)
InitStage1 ==
    /\ pc = "stage1_start"
    /\ arg \in {[soup |-> s, source_url |-> <<"u","1">>] : s \in SoupPool}
    /\ ret = <<>> /\ ret2 = <<>>
    /\ mainIdle

Stage1Run ==
    /\ pc = "stage1_start"
    /\ ret' = extract_contacts(arg.soup, arg.source_url)
    /\ pc' = "stage1_done"
    /\ UNCHANGED <<arg, ret2, mainVars>>

NextStage1 == Stage1Run

SpecStage1 == InitStage1 /\ [][NextStage1]_vars

(***************************************************************************)
(* Specification of the table extractor on one table                       *)
(***************************************************************************)
MaxCols == 2

HeaderCells == { <<"N","a","m","e">>, <<"E","-","M","a","i","l">>, <<"T","e","l">>, <<"J","o","b">> }
DataCells == { <<>>, <<"A","l"," ","B","o">>, <<"a","@","b",".","c","o">>, <<"5","5","5","1","2","3","4">> }

InitTable ==
    /\ pc = "table_start"
    /\ arg \in {<<h>> : h \in SeqsUpTo(HeaderCells, MaxCols)}
             \cup {<<h, d>> : h \in SeqsUpTo(HeaderCells, MaxCols),
                              d \in SeqsUpTo(DataCells, MaxCols)}
    /\ ret = <<>> /\ ret2 = <<>>
    /\ mainIdle

TableRun ==
    /\ pc = "table_start"
    /\ ret' = extract_from_tables(<<arg>>)
    /\ pc' = "table_done"
    /\ UNCHANGED <<arg, ret2, mainVars>>

NextTable == TableRun

SpecTable == InitTable /\ [][NextTable]_vars

(***************************************************************************)
(* Specification of the mailto extractor on one anchor                     *)
(***************************************************************************)
MaxHrefParts == 3

HrefPrefixes == { <<"m","a","i","l","t","o",":">>, <<"M","A","I","L","T","O",":">>, <<"t","e","l",":">> }
HrefParts == { <<"a","@","b",".","c","o">>, <<"?">>, <<",">>, <<" ">>, <<"x">>, <<"m","a","i","l","t","o",":">> }
AnchorTexts == { <<>>, <<"A","l"," ","B","o">>, <<"a","@","b",".","c","o">> }

InitMailto ==
    /\ pc = "mailto_start"
    /\ arg \in { Anchor(p \o Flatten(b), t) :
                   p \in HrefPrefixes, b \in SeqsUpTo(HrefParts, MaxHrefParts),
                   t \in AnchorTexts }
    /\ ret = <<>> /\ ret2 = <<>>
    /\ mainIdle

MailtoRun ==
    /\ pc = "mailto_start"
    /\ ret' = extract_mailto_links(<<arg>>)
    /\ pc' = "mailto_done"
    /\ UNCHANGED <<arg, ret2, mainVars>>

NextMailto == MailtoRun

SpecMailto == InitMailto /\ [][NextMailto]_vars

(***************************************************************************)
(* Specification of dedupe_records applied once and then to its result     *)
(***************************************************************************)
MaxRecords == 3

RecordPool ==
    { [keys |-> {"name"} \cup (IF e = <<>> THEN {} ELSE {"email"})
                         \cup (IF p = <<>> THEN {} ELSE {"phone"}),
       name |-> n, email |-> e, phone |-> p, source_url |-> <<>>] :
        n \in { <<"A","l">>, <<"B","o">> }, e \in { <<>>, <<"a","@","b">>, <<"A","@","b">> }, p \in { <<>>, <<"1">>, <<"1","-">> } }

InitDedupe ==
    /\ pc = "dedupe_start"
    /\ arg \in SeqsUpTo(RecordPool, MaxRecords)
    /\ ret = <<>> /\ ret2 = <<>>
    /\ mainIdle

DedupeOnce ==
    /\ pc = "dedupe_start"
    /\ ret' = dedupe_records(arg)
    /\ pc' = "dedupe_once"
    /\ UNCHANGED <<arg, ret2, mainVars>>

DedupeTwice ==
    /\ pc = "dedupe_once"
    /\ ret2' = dedupe_records(ret)
    /\ pc' = "dedupe_twice"
    /\ UNCHANGED <<arg, ret, mainVars>>

NextDedupe == DedupeOnce \/ DedupeTwice

SpecDedupe == InitDedupe /\ [][NextDedupe]_vars

(***************************************************************************)
(* main.py: the run                                                        *)
(*                                                                         *)
(* A source is what fetching it and parsing it give: "ok" (a document and  *)
(* its final URL), "fetch_error" (Fetcher.get raises), "no_content"        *)
(* (Fetcher.get returns an empty text) or "extract_error"                  *)
(* (extract_contacts raises before it returns).                            *)
(***************************************************************************)
MaxSources == 3

EmptySoup == Soup(<<>>, <<>>, <<>>, <<>>)

Source(outcome, soup, final_url) ==
    [outcome |-> outcome, soup |-> soup, final_url |-> final_url]

SourcePool ==
    { Source("ok", Soup(<<TabFull>>, <<>>, <<>>, <<>>), <<"u","1">>),
      Source("ok", Soup(<<TabFullOther>>, <<>>, <<>>, <<>>), <<"u","2">>),
      Source("ok", Soup(<<TabNoDigits>>, <<>>, <<>>, <<>>), <<"u","3">>),
      Source("ok", Soup(<<>>, <<>>, <<>>, << <<"C","o","n","t","a","c","t",":"," ","A","l"," ","B","o">> >>), <<"u","4">>),
      Source("ok", Soup(<<>>, <<>>, << Elem("id", <<"n","a","m","e">>, <<"C","y"," ","D","i">>) >>, <<>>), <<"u","5">>),
      Source("ok", Soup(<<>>, <<>>, <<>>, << <<"h","i">> >>), <<"u","6">>),
      Source("fetch_error", EmptySoup, <<>>),
      Source("no_content", EmptySoup, <<"u","7">>),
      Source("extract_error", EmptySoup, <<"u","8">>) }

\* the except clause is entered
source_failed(src) == src.outcome \in {"fetch_error", "extract_error"}

\* [normalize_record(contact) for contact in extract_contacts(html_text, final_url)]
normalized_contacts(src) ==
    LET contacts == extract_contacts(src.soup, src.final_url)
    IN  [i \in 1..Len(contacts) |-> normalize_record(contacts[i])]

\* the body of the per-source loop: all_records after it
process_source(src, records) ==
    IF src.outcome = "ok" THEN records \o normalized_contacts(src) ELSE records

\* mutant: a failing source ends the loop
next_source_abort(i, n, failed) == IF failed THEN n ELSE i + 1

\* the loop goes on to the next source whether or not the body failed
next_source(i, n, failed) == i + 1

\* mutant: the writer is called whatever the list holds
should_write_always(records) == TRUE

\* `if unique_records:`
should_write(records) == records # <<>>

LogEntry(level, what) == [level |-> level, what |-> what]

Init ==
    /\ pc = "main_start"
    /\ input_exists \in BOOLEAN
    /\ sources \in (IF input_exists THEN SeqsUpTo(SourcePool, MaxSources) ELSE {<<>>})
    /\ idx = 0
    /\ all_records = <<>>
    /\ unique_records = <<>>
    /\ written = <<>>
    /\ exit_code = -1
    /\ log = <<>>
    /\ arg = <<>> /\ ret = <<>> /\ ret2 = <<>>

\* the input file is validated and read
ReadInput ==
    /\ pc = "main_start"
    /\ IF ~input_exists
       THEN /\ log' = Append(log, LogEntry("error", "input_not_found"))
            /\ exit_code' = 1
            /\ pc' = "main_done"
       ELSE IF sources = <<>>
       THEN /\ log' = Append(log, LogEntry("error", "no_sources"))
            /\ exit_code' = 1
            /\ pc' = "main_done"
       ELSE /\ log' = Append(log, LogEntry("info", "found_sources"))
            /\ exit_code' = exit_code
            /\ pc' = "main_loop"
    /\ UNCHANGED <<input_exists, sources, idx, all_records, unique_records, written,
                   arg, ret, ret2>>

\* one iteration of the per-source loop
ProcessSource ==
    /\ pc = "main_loop"
    /\ idx < Len(sources)
    /\ LET src == sources[idx + 1]
       IN  /\ all_records' = process_source(src, all_records)
           /\ idx' = next_source(idx, Len(sources), source_failed(src))
           /\ log' = Append(log,
                  IF source_failed(src) THEN LogEntry("error", "source_error")
                  ELSE IF src.outcome = "no_content" THEN LogEntry("warning", "no_content")
                  ELSE LogEntry("info", "found_contacts"))
    /\ UNCHANGED <<pc, input_exists, sources, unique_records, written, exit_code,
                   arg, ret, ret2>>

\* after the loop: dedupe, then write or report that there is nothing to write
Finish ==
    /\ pc = "main_loop"
    /\ idx >= Len(sources)
    /\ unique_records' = dedupe_records(all_records)
    /\ IF should_write(unique_records')
       THEN /\ written' = Append(written, unique_records')
            /\ log' = Append(log, LogEntry("info", "wrote"))
       ELSE /\ written' = written
            /\ log' = Append(log, LogEntry("warning", "no_records"))
    /\ exit_code' = 0
    /\ pc' = "main_done"
    /\ UNCHANGED <<input_exists, sources, idx, all_records, arg, ret, ret2>>

Next == ReadInput \/ ProcessSource \/ Finish

Spec == Init /\ [][Next]_vars

(***************************************************************************)
(* Properties                                                              *)
(***************************************************************************)
\* name, email and phone are all empty or absent
AllContentEmpty(r) == \A f \in ContentFields : r[f] = <<>>

\* the run went through the per-source loop and dedupe_records
RanPipeline == pc = "main_done" /\ input_exists /\ sources # <<>>

\* C1: no record of the final list returned by dedupe_records has name, email
\* and phone all empty or absent.
C1_NoEmptyRecordInOutput ==
    RanPipeline => \A i \in 1..Len(unique_records) : ~AllContentEmpty(unique_records[i])

\* what source i is to contribute: its normalized contacts, or nothing when
\* fetching or extracting it fails or gives no content
Contribution(src) == IF src.outcome = "ok" THEN normalized_contacts(src) ELSE <<>>

\* C2: a source whose fetch or extraction fails contributes no record, the
\* records accumulated from the sources before it stay as they are, and the
\* sources after it are processed: after i sources the accumulated list is the
\* concatenation of the contributions of those i sources, failing ones
\* contributing nothing, and the run ends only after every source.
C2_FailureIsolated ==
    /\ pc \in {"main_loop", "main_done"} /\ input_exists /\ sources # <<>> =>
          /\ all_records = Flatten([i \in 1..idx |-> Contribution(sources[i])])
          /\ Len(log) >= 1 + idx
          /\ \A i \in 1..idx :
                source_failed(sources[i]) <=> log[1 + i].what = "source_error"
    /\ RanPipeline => idx = Len(sources)

\* C2 witness: a run has ended in which a failing source stood between two
\* sources that each contributed records.
C2_Witness ==
    /\ RanPipeline
    /\ Len(sources) = 3
    /\ sources[1].outcome = "ok" /\ Contribution(sources[1]) # <<>>
    /\ sources[2].outcome = "extract_error"
    /\ sources[3].outcome = "ok" /\ Contribution(sources[3]) # <<>>
    /\ all_records = Contribution(sources[1]) \o Contribution(sources[3])

\* the key the documentation gives a record at Stage 2
Stage2Key(r) == <<lower(r.email), canonical_phone(r.phone)>>

\* the positions of `records` that hold the earliest record of their key
EarliestOfKey(records) ==
    {i \in 1..Len(records) : \A j \in 1..(i - 1) : Stage2Key(records[j]) # Stage2Key(records[i])}

\* the records at the positions P, in their order
RECURSIVE AtPositions(_, _, _)
AtPositions(records, P, i) ==
    IF i > Len(records) THEN <<>>
    ELSE IF i \in P THEN <<records[i]>> \o AtPositions(records, P, i + 1)
    ELSE AtPositions(records, P, i + 1)

\* two extracted records whose emails differ only in letter case and whose
\* phones are the same
CaseVariants(a, b) ==
    /\ a.email # <<>> /\ a.email # b.email /\ lower(a.email) = lower(b.email)
    /\ a.phone # <<>> /\ a.phone = b.phone

\* the sources i < j, both extracted, that yield such a pair
CaseVariantSources ==
    {<<i, j>> \in (1..Len(sources)) \X (1..Len(sources)) :
        /\ i < j /\ sources[i].outcome = "ok" /\ sources[j].outcome = "ok"
        /\ LET ci == extract_contacts(sources[i].soup, sources[i].final_url)
               cj == extract_contacts(sources[j].soup, sources[j].final_url)
           IN  \E x \in 1..Len(ci), y \in 1..Len(cj) : CaseVariants(ci[x], cj[y])}

\* for the pair of sources <<i, j>>: each key of such a pair is held by one
\* record of the output, and that record is not the later document's
KeptFromFirst(i, j) ==
    LET ci == extract_contacts(sources[i].soup, sources[i].final_url)
        cj == extract_contacts(sources[j].soup, sources[j].final_url)
    IN  \A x \in 1..Len(ci), y \in 1..Len(cj) :
          CaseVariants(ci[x], cj[y]) =>
            LET k == Stage2Key(normalize_record(ci[x]))
                holders == {u \in 1..Len(unique_records) : Stage2Key(unique_records[u]) = k}
                first == CHOOSE m \in 1..Len(sources) :
                           /\ \E r \in Range(Contribution(sources[m])) : Stage2Key(r) = k
                           /\ \A m2 \in 1..(m - 1) :
                                \A r \in Range(Contribution(sources[m2])) : Stage2Key(r) # k
                firstRec == LET c == Contribution(sources[first])
                            IN  c[CHOOSE p \in 1..Len(c) :
                                    /\ Stage2Key(c[p]) = k
                                    /\ \A q \in 1..(p - 1) : Stage2Key(c[q]) # k]
            IN  /\ Cardinality(holders) = 1
                /\ first <= i
                /\ \A u \in holders :
                     /\ unique_records[u].name = firstRec.name
                     /\ unique_records[u].source_url = strip(sources[first].final_url)

\* C3: Stage-2 dedup keeps the first occurrence in processing order: its output
\* is the input restricted, in order, to the earliest record of each key; so
\* when two documents yield records whose emails differ only in letter case and
\* whose phones are the same, the output holds one record of that key and its
\* name is that of the document processed first.
C3_FirstOccurrenceKept ==
    RanPipeline =>
        /\ unique_records = AtPositions(all_records, EarliestOfKey(all_records), 1)
        /\ \A p \in CaseVariantSources : KeptFromFirst(p[1], p[2])

\* C3 witness: a run has ended whose first two documents gave the same email in
\* two letter cases with the same phone under two names, and one was dropped.
C3_Witness ==
    /\ RanPipeline
    /\ <<1, 2>> \in CaseVariantSources
    /\ Len(unique_records) < Len(all_records)
    /\ \E u \in 1..Len(unique_records) :
          /\ unique_records[u].name = <<"C","y"," ","D","i">>
          /\ unique_records[u].email = <<"a","@","b",".","c","o">>
          /\ unique_records[u].phone = <<"5","5","5","1","2","3","4">>

\* C4: Stage-1 dedup loses no email: each candidate of any strategy with a
\* non-empty email has its trimmed, lowercased email on a returned record.
C4_NoEmailLost ==
    pc = "stage1_done" =>
        LET cands == all_contacts_of(arg.soup)
        IN  \A i \in 1..Len(cands) :
              cands[i].email # <<>> =>
                \E k \in 1..Len(ret) :
                    lower(strip(ret[k].email)) = lower(strip(cands[i].email))

\* C4 witness: extract_contacts has dropped a candidate carrying an email as
\* the duplicate of an earlier one.
C4_Witness ==
    /\ pc = "stage1_done"
    /\ LET cands == all_contacts_of(arg.soup)
       IN  /\ \E i, j \in 1..Len(cands) :
                /\ i < j /\ cands[i].email # <<>> /\ cands[i] = cands[j]
           /\ \E i, j \in 1..Len(cands) :
                /\ cands[i].email # <<>> /\ cands[j].email # <<>>
                /\ cands[i].email # cands[j].email
                /\ lower(cands[i].email) = lower(cands[j].email)
    /\ ret # <<>>

\* a key component as the documentation gives it: the trimmed (and, for name
\* and email, lowercased) value, or None when that is empty or the field absent
OrNone(s) == IF s = <<>> THEN NoneKey ELSE s
DescribedKey(c) ==
    << OrNone(lower(strip(c.name))), OrNone(lower(strip(c.email))), OrNone(strip(c.phone)) >>
KeyAllNone(k) == \A i \in 1..3 : k[i] = NoneKey

\* the candidates Stage 1 is to keep: key not all-None, not seen earlier
DescribedKept(cands) ==
    {i \in 1..Len(cands) :
        /\ ~KeyAllNone(DescribedKey(cands[i]))
        /\ \A j \in 1..(i - 1) : DescribedKey(cands[j]) # DescribedKey(cands[i])}

\* every content field empty or whitespace-only
AllBlank(c) == \A f \in ContentFields : strip(c[f]) = <<>>

\* C5: extract_contacts returns exactly the candidates (structured, then text,
\* in order) whose key is not all-empty and has not occurred earlier in the
\* document; an all-empty candidate is discarded; every returned record carries
\* the document's source URL.
C5_Stage1Exact ==
    pc = "stage1_done" =>
        LET cands == all_contacts_of(arg.soup)
            kept == AtPositions(cands, DescribedKept(cands), 1)
        IN  /\ ret = [k \in 1..Len(kept) |-> Put(kept[k], "source_url", arg.source_url)]
            /\ \A k \in 1..Len(ret) :
                  /\ ~AllBlank(ret[k])
                  /\ "source_url" \in ret[k].keys
                  /\ ret[k].source_url = arg.source_url

\* C5 witness: extract_contacts has run on a document with an all-empty
\* candidate, a repeated candidate and a kept one.
C5_Witness ==
    /\ pc = "stage1_done"
    /\ LET cands == all_contacts_of(arg.soup)
       IN  /\ \E i \in 1..Len(cands) : AllBlank(cands[i]) /\ cands[i].keys # {}
           /\ \E i, j \in 1..Len(cands) : i < j /\ cands[i] = cands[j] /\ ~AllBlank(cands[i])
           /\ Len(ret) >= 2
           /\ Len(ret) + 2 <= Len(cands)

\* C6: Stage-2 dedup is idempotent.
C6_DedupeIdempotent ==
    pc = "dedupe_twice" => ret2 = ret

\* C6 witness: dedupe_records has run twice on a list of which it dropped a
\* record and kept two.
C6_Witness ==
    /\ pc = "dedupe_twice"
    /\ Len(arg) = 3 /\ Len(ret) = 2 /\ ret2 = ret
    /\ lower(arg[1].email) = lower(arg[3].email) /\ arg[1].email # arg[3].email

\* The result the documentation describes: the digits in order, with a '+' in
\* front exactly when the trimmed input starts with '+' and has a digit.
DigitsOf(s) == FilterDigits(s)
DescribedPhone(x) ==
    LET t == strip(x)
        d == DigitsOf(x)
    IN  IF d = <<>> THEN <<>>
        ELSE IF t # <<>> /\ t[1] = "+" THEN <<"+">> \o d
        ELSE d

\* C7: canonical_phone is a projection, and its result is the digits of x in
\* order, prefixed with '+' only when the trimmed x starts with '+' and a digit
\* exists, and empty when x has no digits.
C7_CanonicalPhoneProjection ==
    /\ pc \in {"phone_once", "phone_twice"} => ret = DescribedPhone(arg)
    /\ pc = "phone_twice" => ret2 = ret

\* C7 witness: an input with leading whitespace, a '+', separators and digits
\* has been canonicalized twice.
C7_Witness ==
    /\ pc = "phone_twice"
    /\ arg = <<" ", "+", "1", "-">>
    /\ ret = <<"+", "1">>

\* the last message the logger was given
LastLog == log[Len(log)]

\* C8 (as amended): an empty-result run never calls the writer; when the
\* pipeline yields zero records it ends with a warning and exit status 0, and
\* when the input lists no sources it ends with an error and exit status 1.
C8_EmptyResultOutcomes ==
    pc = "main_done" /\ input_exists =>
        /\ sources = <<>> =>
              /\ exit_code = 1 /\ written = <<>>
              /\ LastLog = LogEntry("error", "no_sources")
        /\ sources # <<>> /\ unique_records = <<>> =>
              /\ exit_code = 0 /\ written = <<>>
              /\ LastLog = LogEntry("warning", "no_records")

\* C8 witness: a run over documents that yield no record has ended with exit
\* status 0 and without a call of the writer.
C8_Witness ==
    /\ RanPipeline
    /\ \E i \in 1..Len(sources) : sources[i].outcome = "ok"
    /\ all_records = <<>> /\ unique_records = <<>>
    /\ exit_code = 0 /\ written = <<>>

\* C8 (as claimed): an empty-result run, with no sources or with zero records
\* after the pipeline, ends in a non-fatal outcome that is no error exit, and
\* never calls the writer.
C8_EmptyResultNonFatal ==
    pc = "main_done" /\ input_exists /\ (sources = <<>> \/ unique_records = <<>>) =>
        /\ exit_code = 0
        /\ LastLog.level # "error"
        /\ written = <<>>

HeaderKeywords ==
    { <<"n","a","m","e">>, <<"c","o","n","t","a","c","t">>, <<"p","e","r","s","o","n">>, <<"e","m","a","i","l">>, <<"m","a","i","l">>, <<"p","h","o","n","e">>, <<"t","e","l">>, <<"m","o","b","i","l","e">> }

\* some cell of the row contains a header keyword, in any letter case
HasHeaderKeyword(row) ==
    \E i \in 1..Len(row) : \E k \in HeaderKeywords : Contains(lower(strip(row[i])), k)

\* C9: whenever a cell of a table's first row contains a header keyword,
\* whichever column it is in, the first row is a header: the data rows start at
\* the second row and the first row yields no candidate.
C9_HeaderRowSkipped ==
    pc = "table_done" /\ HasHeaderKeyword(arg[1]) =>
        ret = data_rows(Tail(arg), header_map(arg))

\* the href without its 7-character prefix and without a trailing query string
MailtoRemainder(href) == strip(before_query(Slice(href, 8, Len(href))))

\* C10: the mailto extractor emits a record for an anchor exactly when its href
\* starts with 'mailto:' in any letter case and the remainder is an email as a
\* full match; the emitted email is that remainder.
C10_MailtoExact ==
    pc = "mailto_done" =>
        LET rem == MailtoRemainder(arg.href)
            full == re_fullmatch(EMAIL_RE, rem).end # 0
        IN  /\ ret # <<>> <=> (is_mailto(arg.href) /\ full)
            /\ \A k \in 1..Len(ret) :
                  /\ ret[k].email = rem
                  /\ re_fullmatch(EMAIL_RE, ret[k].email).end # 0

(***************************************************************************)
(* Specification of the text-heuristic extractor on one labelled line      *)
(***************************************************************************)
MaxWords == 2

NameLabels == { <<"n","a","m","e">>, <<"C","o","n","t","a","c","t">> }
NameSeps == { <<":">>, <<":"," ">>, <<" ","-"," ">> }
NameWords == { <<"A","l">>, <<"b","o">>, <<"C","Y">>, <<"d","J">> }

\* the non-empty sequences over `pool` of length at most n
NonEmptySeqsUpTo(pool, n) == UNION {[1..k -> pool] : k \in 1..n}

InitNameLine ==
    /\ pc = "line_start"
    /\ arg \in { l \o s \o join_space(w) :
                   l \in NameLabels, s \in NameSeps,
                   w \in NonEmptySeqsUpTo(NameWords, MaxWords) }
    /\ ret = <<>> /\ ret2 = <<>>
    /\ mainIdle

NameLineRun ==
    /\ pc = "line_start"
    /\ ret' = extract_candidates_via_text(Soup(<<>>, <<>>, <<>>, <<arg>>))
    /\ pc' = "line_done"
    /\ UNCHANGED <<arg, ret2, mainVars>>

NextNameLine == NameLineRun

SpecNameLine == InitNameLine /\ [][NextNameLine]_vars

\* a word that starts with an uppercase letter followed only by lowercase
\* letters, at least one
CapitalizedWord(w) ==
    /\ Len(w) >= 2
    /\ IsUpper(w[1])
    /\ \A i \in 2..Len(w) : IsLower(w[i])

\* two or more capitalized words
CapitalizedName(s) ==
    LET words == split_ws(s)
    IN  /\ Len(words) >= 2
        /\ \A i \in 1..Len(words) : CapitalizedWord(words[i])

\* C11: every name the text-heuristic extractor puts on a record consists of
\* two or more capitalized words, each an uppercase letter followed only by
\* lowercase letters; a line whose words after the label are all lowercase
\* yields no name.
C11_NameIsCapitalizedWords ==
    pc = "line_done" =>
        \A k \in 1..Len(ret) : "name" \in ret[k].keys => CapitalizedName(ret[k].name)

(***************************************************************************)
(* Specification of normalize_name on one string                           *)
(***************************************************************************)
MaxNameLen == 4

NameAlphabet == { "a", "B", "'", "-", "3", " " }

InitName ==
    /\ pc = "name_start"
    /\ arg \in StringsUpTo(NameAlphabet, MaxNameLen)
    /\ ret = <<>> /\ ret2 = <<>>
    /\ mainIdle

NameRun ==
    /\ pc = "name_start"
    /\ ret' = normalize_name(arg)
    /\ pc' = "name_done"
    /\ UNCHANGED <<arg, ret2, mainVars>>

NextName == NameRun

SpecName == InitName /\ [][NextName]_vars

\* whitespace runs collapsed to single spaces, and trimmed
Collapsed(s) == join_space(split_ws(s))

\* the same characters, letter case aside
SameLetters(s, t) == Len(s) = Len(t) /\ lower(s) = lower(t)

\* the positions of s that start a maximal run of letters
RunStarts(s) ==
    {i \in 1..Len(s) : IsAlpha(s[i]) /\ (i = 1 \/ ~IsAlpha(s[i - 1]))}

\* C12 (as amended): normalize_name returns the input with whitespace runs
\* collapsed and trimmed, and with every maximal run of letters rewritten so
\* that its first letter is uppercase and its other letters lowercase: a
\* letter that follows an apostrophe, a hyphen or a digit is uppercased.
C12_TitleCasePerLetterRun ==
    pc = "name_done" =>
        /\ SameLetters(ret, Collapsed(arg))
        /\ \A i \in 1..Len(ret) :
              IsAlpha(ret[i]) => (IsUpper(ret[i]) <=> i \in RunStarts(ret))

\* C12 witness: a name with a letter after an apostrophe has been normalized.
C12_Witness ==
    /\ pc = "name_done"
    /\ arg = <<" ","a","'","a">>
    /\ ret = <<"A","'","A">>

\* the first letter of a word, 0 when it has none
FirstLetter(w) ==
    LET L == {i \in 1..Len(w) : IsAlpha(w[i])}
    IN  IF L = {} THEN 0 ELSE CHOOSE i \in L : \A j \in L : i <= j

\* C12 (as claimed): normalize_name returns the input with whitespace runs
\* collapsed and trimmed, and in every whitespace-delimited word only the
\* first letter is uppercase and all the remaining letters are lowercase,
\* also in words with apostrophes, hyphens or digits.
C12_TitleCasePerWord ==
    pc = "name_done" =>
        /\ SameLetters(ret, Collapsed(arg))
        /\ LET words == split_ws(ret)
           IN  \A k \in 1..Len(words) : \A i \in 1..Len(words[k]) :
                 IsAlpha(words[k][i]) =>
                    (IsUpper(words[k][i]) <=> i = FirstLetter(words[k]))

\* email and phone are both empty or absent
NoEmailNoPhone(r) == r.email = <<>> /\ r.phone = <<>>

\* the positions of `records` holding a record without email and phone
KeylessPositions(records) == {i \in 1..Len(records) : NoEmailNoPhone(records[i])}

\* C13: after Stage-2 dedup the final output of a run holds at most one record
\* whose email and phone are both empty or absent: the name-only records of
\* all documents share the key ('', '') and only the first one processed
\* survives, whatever their names.
C13_OneKeylessRecord ==
    RanPipeline =>
        LET inp == KeylessPositions(all_records)
            out == KeylessPositions(unique_records)
        IN  /\ Cardinality(out) <= 1
            /\ inp # {} =>
                  /\ Cardinality(out) = 1
                  /\ \A u \in out :
                       unique_records[u] =
                          all_records[CHOOSE i \in inp : \A j \in inp : i <= j]

\* C13 witness: a run over two documents that each gave a name-only record,
\* under different names, has ended with the first one alone in the output.
C13_Witness ==
    /\ RanPipeline
    /\ Len(all_records) = 2
    /\ NoEmailNoPhone(all_records[1]) /\ NoEmailNoPhone(all_records[2])
    /\ all_records[1].name = <<"A","l"," ","B","o">> /\ all_records[2].name = <<"C","y"," ","D","i">>
    /\ unique_records = <<all_records[1]>>

=============================================================================
